---- MODULE Spec2Model ----
(***************************************************************************)
(* The versioned binary state decoder of bin/opfp/src/cmd/util.rs:         *)
(* VersionedState::try_from and the Decodable implementations it runs.     *)
(*                                                                         *)
(* A decode is a sequential program over a std::io::Cursor.  Every read    *)
(* of the source is one step of the model; pc names the statement that     *)
(* runs next.  An unsigned 32- or 64-bit value is kept as its big-endian   *)
(* base-256 numeral (most significant digit first), so that the full       *)
(* width of every field is kept; a u8 is a number in 0..255.               *)
(***************************************************************************)
EXTENDS Integers, Sequences, FiniteSets, TLC

(***************************************************************************)
(* Bounds of the inputs that are explored.                                 *)
(***************************************************************************)
MaxPages == 1
MaxThreads == 2
MaxHint == 2
MaxTrail == 1

(***************************************************************************)
(* Program constants.                                                      *)
(***************************************************************************)
PageSize == 4096
NumRegisters == 32
KeySize == 32

(***************************************************************************)
(* Unsigned integers as big-endian numerals.                               *)
(***************************************************************************)
Byte == 0..255

Zeros(n) == [j \in 1..n |-> 0]

\* the numeral of width w of a number x below 2^24
Digits(x, w) ==
    [j \in 1..w |-> IF w - j > 2 THEN 0 ELSE (x \div (256 ^ (w - j))) % 256]

\* the digits above the three least significant ones are all zero
IsSmall(ds) == \A j \in 1..(Len(ds) - 3) : ds[j] = 0

\* the value of the three least significant digits
Low(ds) == ds[Len(ds) - 2] * 65536 + ds[Len(ds) - 1] * 256 + ds[Len(ds)]

\* x < ds and ds <= x, for a number x below 2^24
NatLess(x, ds) == (~IsSmall(ds)) \/ x < Low(ds)
AtMost(ds, x) == IsSmall(ds) /\ Low(ds) <= x

\* the value of a numeral, or 2^24 when it is 2^24 or more
Capped(ds) == IF IsSmall(ds) THEN Low(ds) ELSE 16777216

IsZero(ds) == \A j \in 1..Len(ds) : ds[j] = 0

\* cursor.read_u32::<BigEndian>() / read_u64::<BigEndian>(): the bytes in
\* buffer order are the digits, most significant first
BigEndian(bytes) == bytes

(***************************************************************************)
(* Default values of the structs (#[derive(Default)]).                     *)
(***************************************************************************)
EmptyPages == [x \in {} |-> x]

DefaultMemory == [pages |-> EmptyPages]

DefaultCpuScalars == [pc |-> Zeros(4), next_pc |-> Zeros(4),
                      lo |-> Zeros(4), hi |-> Zeros(4)]

DefaultCpuScalars64 == [pc |-> Zeros(8), next_pc |-> Zeros(8),
                        lo |-> Zeros(8), hi |-> Zeros(8)]

DefaultThreadState ==
    [thread_id |-> Zeros(4), exit_code |-> 0, exited |-> FALSE,
     cpu |-> DefaultCpuScalars,
     registers |-> [r \in 0..(NumRegisters - 1) |-> Zeros(4)]]

DefaultThreadState64 ==
    [thread_id |-> Zeros(8), exit_code |-> 0, exited |-> FALSE,
     cpu |-> DefaultCpuScalars64,
     registers |-> [r \in 0..(NumRegisters - 1) |-> Zeros(8)]]

DefaultSingleThreadedFPVMState ==
    [memory |-> DefaultMemory, preimage_key |-> Zeros(KeySize),
     perimage_offset |-> Zeros(4), cpu |-> DefaultCpuScalars,
     heap |-> Zeros(4), exit_code |-> 0, exited |-> FALSE,
     step |-> Zeros(8),
     registers |-> [r \in 0..(NumRegisters - 1) |-> Zeros(4)],
     last_hint |-> << >>]

DefaultMultiThreadedV2State ==
    [memory |-> DefaultMemory, preimage_key |-> Zeros(KeySize),
     perimage_offset |-> Zeros(4), heap |-> Zeros(4),
     ll_reservation_status |-> 0, ll_address |-> Zeros(4),
     ll_owner_thread |-> Zeros(4), exit_code |-> 0, exited |-> FALSE,
     step |-> Zeros(8), steps_since_last_context_switch |-> Zeros(8),
     traverse_right |-> FALSE, left_thread_stack |-> << >>,
     right_thread_stack |-> << >>, next_thread_id |-> Zeros(4),
     last_hint |-> << >>]

DefaultMultiThreaded64V3 ==
    [memory |-> DefaultMemory, preimage_key |-> Zeros(KeySize),
     perimage_offset |-> Zeros(8), heap |-> Zeros(8),
     ll_reservation_status |-> 0, ll_address |-> Zeros(8),
     ll_owner_thread |-> Zeros(8), exit_code |-> 0, exited |-> FALSE,
     step |-> Zeros(8), steps_since_last_context_switch |-> Zeros(8),
     traverse_right |-> FALSE, left_thread_stack |-> << >>,
     right_thread_stack |-> << >>, next_thread_id |-> Zeros(8),
     last_hint |-> << >>]

\* enum CannonVersion and TryFrom<u8> for CannonVersion
CannonVersion == {2, 5, 6}
\* a conversion with the arms of the two multi-threaded versions exchanged
CannonVersion_try_from_exchanged(b) ==
    CASE b = 2 -> [tag |-> "Ok", value |-> "SingleThreaded2"]
      [] b = 5 -> [tag |-> "Ok", value |-> "MultiThreaded64V3"]
      [] b = 6 -> [tag |-> "Ok", value |-> "MultiThreadedV2"]
      [] OTHER -> [tag |-> "Err", value |-> <<"invalid cannon state version", b>>]

CannonVersion_try_from(b) ==
    CASE b = 2 -> [tag |-> "Ok", value |-> "SingleThreaded2"]
      [] b = 5 -> [tag |-> "Ok", value |-> "MultiThreadedV2"]
      [] b = 6 -> [tag |-> "Ok", value |-> "MultiThreaded64V3"]
      [] OTHER -> [tag |-> "Err", value |-> <<"invalid cannon state version", b>>]

(***************************************************************************)
(* Input buffers.  A shape gives the discriminant d, the numbers n of page  *)
(* records, L and R of left and right thread records and k of hint bytes   *)
(* a buffer really holds; dn, dL, dR and dk are the counts its length      *)
(* fields declare, cut is where it ends and trail the number of bytes that *)
(* follow the hint blob.  The layout is that of the buffer the test        *)
(* test_decode_versioned_state decodes.                                    *)
(***************************************************************************)
IsMulti(d) == d \in {5, 6}

\* width of the machine-word fields of a variant
WordSize(d) == IF d = 6 THEN 8 ELSE 4

PageRecordSize == 4 + PageSize

ThreadRecordSize(d) ==
    WordSize(d) + 1 + 1 + 4 * WordSize(d) + NumRegisters * WordSize(d)

\* the bytes between the page table and the first thread-stack count
\* (multi-threaded) or the hint length (single-threaded)
HeaderSize(d) ==
    IF IsMulti(d)
    THEN KeySize + WordSize(d) + WordSize(d) + 1 + WordSize(d) + WordSize(d)
         + 1 + 1 + 8 + 8 + 1 + WordSize(d)
    ELSE KeySize + 4 + 4 * 4 + 4 + 1 + 1 + 8 + NumRegisters * 4

\* offsets (number of bytes before the field) in a buffer of shape c
PageCountOff == 1
PageOff(c, j) == PageCountOff + 4 + (j - 1) * PageRecordSize
MemEnd(c) == PageOff(c, c.n + 1)
LeftCountOff(c) == MemEnd(c) + HeaderSize(c.d)
LeftOff(c, j) == LeftCountOff(c) + WordSize(c.d) + (j - 1) * ThreadRecordSize(c.d)
RightCountOff(c) == LeftOff(c, c.L + 1)
RightOff(c, j) == RightCountOff(c) + WordSize(c.d) + (j - 1) * ThreadRecordSize(c.d)
HintLenOff(c) ==
    IF IsMulti(c.d) THEN RightOff(c, c.R + 1) ELSE MemEnd(c) + HeaderSize(c.d)
HintOff(c) == HintLenOff(c) + 4
EncLen(c) == HintOff(c) + c.k
ExitedOff(c) ==
    MemEnd(c) + (IF IsMulti(c.d)
                 THEN KeySize + 4 * WordSize(c.d) + 1 + 1
                 ELSE KeySize + 4 + 4 * 4 + 4 + 1)

\* the byte at position p (from 1) of a field that the shape does not fix
Pat(p) == (p * 7 + 3) % 256

Within(p, off, w) == off < p /\ p <= off + w

\* the page index that every page record of an input with dup carries
DupIndex == <<0, 0, 0, 7>>

\* byte p (from 1) of the buffer built from input c
EncodedByte(c, p) ==
    IF p = 1 THEN c.d
    ELSE IF Within(p, PageCountOff, 4) THEN c.dn[p - PageCountOff]
    ELSE IF c.dup /\ PageCountOff + 4 < p /\ p <= c.memEnd
                  /\ (p - PageCountOff - 5) % PageRecordSize < 4
         THEN DupIndex[((p - PageCountOff - 5) % PageRecordSize) + 1]
    ELSE IF p = c.exitedOff + 1 THEN c.flag
    ELSE IF IsMulti(c.d) /\ Within(p, c.leftCountOff, WordSize(c.d))
         THEN c.dL[p - c.leftCountOff]
    ELSE IF IsMulti(c.d) /\ Within(p, c.rightCountOff, WordSize(c.d))
         THEN c.dR[p - c.rightCountOff]
    ELSE IF Within(p, c.hintLenOff, 4) THEN c.dk[p - c.hintLenOff]
    ELSE IF Within(p, c.hintLenOff + 4 + c.k, Len(c.tail))
         THEN c.tail[p - (c.hintLenOff + 4 + c.k)]
    ELSE Pat(p)

FlagBytes == {0, 2}

\* shapes: any number of thread records without pages, or pages with at most
\* one record on each stack; a single-threaded buffer has no thread record
Shapes ==
    { [d |-> d, n |-> n, L |-> L, R |-> R, k |-> k] :
        d \in CannonVersion, n \in 0..MaxPages, L \in 0..MaxThreads,
        R \in 0..MaxThreads, k \in 0..MaxHint }

ValidShapes ==
    { s \in Shapes : /\ IsMulti(s.d) \/ (s.L = 0 /\ s.R = 0)
                     /\ s.n = 0 \/ (s.L <= 1 /\ s.R <= 1) }

\* a shape with the counts it declares, its flag byte and trailing bytes;
\* cuts is the set of lengths the buffer is cut to, cut the one chosen; dup
\* says that all page records carry one index, prior is the page mapping
\* of the Memory before the call, tail the bytes appended to the encoding
\* where they are given
Input(s, dn, dL, dR, dk, flag, trail, cuts) ==
    [d |-> s.d, n |-> s.n, L |-> s.L, R |-> s.R, k |-> s.k,
     dn |-> dn, dL |-> dL, dR |-> dR, dk |-> dk,
     flag |-> flag, trail |-> trail, cuts |-> cuts, cut |-> 0,
     exitedOff |-> ExitedOff(s), leftCountOff |-> LeftCountOff(s),
     rightCountOff |-> RightCountOff(s), hintLenOff |-> HintLenOff(s),
     memEnd |-> MemEnd(s), dup |-> FALSE, prior |-> EmptyPages,
     tail |-> << >>]

Honest(s, flag, trail, cuts) ==
    Input(s, Digits(s.n, 4), Digits(s.L, WordSize(s.d)),
          Digits(s.R, WordSize(s.d)), Digits(s.k, 4), flag, trail, cuts)

\* complete encodings: every flag byte, and every number of trailing bytes
CompleteInputs ==
    { Honest(s, flag, 0, {EncLen(s)}) : s \in ValidShapes, flag \in FlagBytes }
    \cup { Honest(s, 1, trail, {EncLen(s) + trail}) :
             s \in ValidShapes, trail \in 1..MaxTrail }

\* encodings cut at every length: of each variant the smallest one, of the
\* multi-threaded variants one with a record on each stack and a hint, of
\* the single-threaded variant one with a page
TruncatedShapes ==
    { [d |-> d, n |-> 0, L |-> 0, R |-> 0, k |-> 0] : d \in CannonVersion }
    \cup { [d |-> d, n |-> 0, L |-> 1, R |-> 1, k |-> 2] : d \in {5, 6} }
    \cup { [d |-> 2, n |-> 1, L |-> 0, R |-> 0, k |-> 2] }

TruncatedInputs ==
    { Honest(s, 1, 0, 0..(EncLen(s) - 1)) : s \in TruncatedShapes }

\* one length field declares more than the buffer holds
AllOnes(w) == [j \in 1..w |-> 255]

Inflate(x, w) == {Digits(x + 1, w), AllOnes(w)}

OverdeclaredShapes ==
    { s \in ValidShapes : s.k \in {0, MaxHint} /\ (s.n = 0 \/ s.L + s.R = 0) }

OverdeclaredInputs ==
    UNION { { Input(s, dn, Digits(s.L, WordSize(s.d)), Digits(s.R, WordSize(s.d)),
                    Digits(s.k, 4), 1, 0, {EncLen(s)}) : dn \in Inflate(s.n, 4) }
            \cup { Input(s, Digits(s.n, 4), dL, Digits(s.R, WordSize(s.d)),
                         Digits(s.k, 4), 1, 0, {EncLen(s)}) :
                     dL \in IF IsMulti(s.d) THEN Inflate(s.L, WordSize(s.d)) ELSE {} }
            \cup { Input(s, Digits(s.n, 4), Digits(s.L, WordSize(s.d)), dR,
                         Digits(s.k, 4), 1, 0, {EncLen(s)}) :
                     dR \in IF IsMulti(s.d) THEN Inflate(s.R, WordSize(s.d)) ELSE {} }
            \cup { Input(s, Digits(s.n, 4), Digits(s.L, WordSize(s.d)),
                         Digits(s.R, WordSize(s.d)), dk, 1, 0, {EncLen(s)}) :
                     dk \in Inflate(s.k, 4) }
          : s \in OverdeclaredShapes }

\* a first byte that names no version, alone or followed by a body
UnsupportedInputs ==
    { Honest(s, 1, 0, {1, 2, EncLen(s)}) :
        s \in { [d |-> d, n |-> 0, L |-> 0, R |-> 0, k |-> 2] :
                  d \in Byte \ CannonVersion } }

Inputs ==
    CompleteInputs \cup TruncatedInputs \cup OverdeclaredInputs
        \cup UnsupportedInputs

\* the input is a complete well-formed encoding, possibly with trailing bytes
WellFormed(c) ==
    /\ c.d \in CannonVersion
    /\ c.dn = Digits(c.n, 4) /\ c.dk = Digits(c.k, 4)
    /\ c.dL = Digits(c.L, WordSize(c.d)) /\ c.dR = Digits(c.R, WordSize(c.d))
    /\ c.cut = EncLen(c) + c.trail

(***************************************************************************)
(* State.                                                                  *)
(*   inp          the input: the shape the buffer was built from           *)
(*   pos          the position of the Cursor                               *)
(*   pc, ret      the statement that runs next; where the running          *)
(*                Memory::decode or thread decode returns to               *)
(*   v            the VersionedState that try_from builds                  *)
(*   st           the variant decoder's struct (single_threaded_fpvmstate, *)
(*                mutli_threaded_v2 or mutli_threaded_64_v3)               *)
(*   loc          the local variables of the decoders                      *)
(*   result       what try_from gives its caller                           *)
(*   log          history: every read issued, in order                     *)
(*   prev         history: the results of the earlier calls on this input  *)
(***************************************************************************)
VARIABLES inp, pos, pc, ret, v, st, loc, result, log, prev

vars == <<inp, pos, pc, ret, v, st, loc, result, log, prev>>

\* the Vec<u8> handed to try_from, which the Cursor owns
buffer_len == inp.cut
buffer_at(p) == EncodedByte(inp, p)

InitLoc ==
    [page_count |-> Zeros(4), page_index |-> Zeros(4), i |-> 0,
     j |-> 0, left_thread_stack_size |-> << >>,
     right_thread_stack_size |-> << >>,
     thread_state |-> DefaultThreadState,
     left_thread_stack |-> << >>, right_thread_stack |-> << >>,
     last_hint_len |-> Zeros(4), allocated |-> FALSE, slice_len |-> Zeros(4)]

\* VersionedState::try_from up to the call of decode
Init ==
    /\ \E c \in Inputs : \E cut \in c.cuts :
         inp = [c EXCEPT !.cut = cut, !.cuts = {}]
    /\ pos = 0
    /\ pc = "VS_version"
    /\ ret = "none"
    /\ v = [version |-> 0, state |-> DefaultSingleThreadedFPVMState]
    /\ st = DefaultSingleThreadedFPVMState
    /\ loc = InitLoc
    /\ result = [tag |-> "Running"]
    /\ log = << >>
    /\ prev = << >>

(***************************************************************************)
(* The byte cursor (std::io::Cursor with byteorder::ReadBytesExt).         *)
(***************************************************************************)
Remaining == buffer_len - pos

Bytes(n) == [j \in 1..n |-> buffer_at(pos + j)]

read_u8 == Bytes(1)[1]
read_u32 == BigEndian(Bytes(4))
read_u64 == BigEndian(Bytes(8))
read_exact(n) == Bytes(n)

Logged(lbl, n, ok) ==
    Append(log, [at |-> lbl, off |-> pos, n |-> n, ok |-> ok])

\* the Err that try_from makes of a failed decode
TryFromErr(err) ==
    [tag |-> "Err", msg |-> "invalid versioned state encoding", err |-> err]

\* a read that does not look at what remains: past the end it gives bytes
\* that are not in the buffer
ReadSucceeds_unbounded(lbl, n) ==
    /\ pos' = pos + n
    /\ log' = Logged(lbl, n, TRUE)

\* a read of n bytes with n or more bytes left
ReadSucceeds(lbl, n) ==
    /\ Remaining >= n
    /\ pos' = pos + n
    /\ log' = Logged(lbl, n, TRUE)

\* a read of n bytes with fewer left: io::ErrorKind::UnexpectedEof, which
\* every `?` hands on up to try_from.  The position it leaves depends on
\* the version of the standard library: unchanged, or the end of the buffer.
ReadFails(lbl, n) ==
    /\ Remaining < n
    /\ pos' \in {pos, buffer_len}
    /\ log' = Logged(lbl, n, FALSE)
    /\ pc' = "done"
    /\ result' = TryFromErr("UnexpectedEndOfInput")
    /\ UNCHANGED <<v, st, loc, ret>>

\* the statement at lbl reads n bytes into the struct or a local; newRet is
\* where the decode that next calls returns to
ReadCall(lbl, n, next, newSt, newLoc, newRet) ==
    /\ pc = lbl
    /\ \/ /\ ReadSucceeds(lbl, n)
          /\ pc' = next
          /\ st' = newSt
          /\ loc' = newLoc
          /\ ret' = newRet
          /\ UNCHANGED <<v, result>>
       \/ ReadFails(lbl, n)
    /\ UNCHANGED <<inp, prev>>

ReadStep(lbl, n, next, newSt, newLoc) ==
    ReadCall(lbl, n, next, newSt, newLoc, ret)

(***************************************************************************)
(* impl Decodable for VersionedState                                       *)
(***************************************************************************)
\* self.version = cursor.read_u8()?
VS_version ==
    /\ pc = "VS_version"
    /\ \/ /\ ReadSucceeds("VS_version", 1)
          /\ v' = [v EXCEPT !.version = read_u8]
          /\ pc' = "VS_dispatch"
          /\ UNCHANGED <<st, loc, ret, result>>
       \/ ReadFails("VS_version", 1)
    /\ UNCHANGED <<inp, prev>>

\* the dispatch with the cursor set back to the start of the buffer
VS_dispatch_rewind ==
    /\ pc = "VS_dispatch"
    /\ LET version_state_cannon == CannonVersion_try_from(v.version) IN
         IF version_state_cannon.tag = "Err"
         THEN /\ pc' = "done"
              /\ result' = [tag |-> "Panic", msg |-> version_state_cannon.value]
              /\ UNCHANGED <<st, ret>>
         ELSE /\ pc' = "Mem_page_count"
              /\ st' = CASE version_state_cannon.value = "SingleThreaded2" ->
                              DefaultSingleThreadedFPVMState
                         [] version_state_cannon.value = "MultiThreadedV2" ->
                              DefaultMultiThreadedV2State
                         [] version_state_cannon.value = "MultiThreaded64V3" ->
                              DefaultMultiThreaded64V3
              /\ ret' = CASE version_state_cannon.value = "SingleThreaded2" ->
                               "ST_preimage_key"
                          [] version_state_cannon.value = "MultiThreadedV2" ->
                               "V2_preimage_key"
                          [] version_state_cannon.value = "MultiThreaded64V3" ->
                               "V3_preimage_key"
              /\ UNCHANGED result
    /\ pos' = 0
    /\ UNCHANGED <<inp, prev, v, loc, log>>

\* CannonVersion::try_from(self.version).unwrap() and the match on it: the
\* unwrap of an Err panics; each arm makes the default struct of its variant
\* and calls its decode, which starts with self.memory.decode(cursor)
VS_dispatch ==
    /\ pc = "VS_dispatch"
    /\ LET version_state_cannon == CannonVersion_try_from(v.version) IN
         IF version_state_cannon.tag = "Err"
         THEN /\ pc' = "done"
              /\ result' = [tag |-> "Panic", msg |-> version_state_cannon.value]
              /\ UNCHANGED <<st, ret>>
         ELSE /\ pc' = "Mem_page_count"
              /\ st' = CASE version_state_cannon.value = "SingleThreaded2" ->
                              DefaultSingleThreadedFPVMState
                         [] version_state_cannon.value = "MultiThreadedV2" ->
                              DefaultMultiThreadedV2State
                         [] version_state_cannon.value = "MultiThreaded64V3" ->
                              DefaultMultiThreaded64V3
              /\ ret' = CASE version_state_cannon.value = "SingleThreaded2" ->
                               "ST_preimage_key"
                          [] version_state_cannon.value = "MultiThreadedV2" ->
                               "V2_preimage_key"
                          [] version_state_cannon.value = "MultiThreaded64V3" ->
                               "V3_preimage_key"
              /\ UNCHANGED result
    /\ UNCHANGED <<inp, prev, pos, v, loc, log>>

\* a decode that asks for the end of the buffer after the hint
VS_wrap_to_the_end ==
    /\ pc = "VS_wrap"
    /\ v' = [v EXCEPT !.state = st]
    /\ result' = IF Remaining = 0 THEN [tag |-> "Ok", value |-> v']
                  ELSE TryFromErr("TrailingBytes")
    /\ pc' = "done"
    /\ UNCHANGED <<inp, prev, pos, st, loc, ret, log>>

\* self.state = Box::new(..); Ok(()) in decode, and Ok(v) in try_from
VS_wrap ==
    /\ pc = "VS_wrap"
    /\ v' = [v EXCEPT !.state = st]
    /\ result' = [tag |-> "Ok", value |-> v']
    /\ pc' = "done"
    /\ UNCHANGED <<inp, prev, pos, st, loc, ret, log>>

(***************************************************************************)
(* impl Decodable for Memory                                               *)
(***************************************************************************)
\* where `for _ in 0..count` goes after i rounds
Loop(i, count, body, exit) == IF NatLess(i, count) THEN body ELSE exit

\* a page count after which the map is replaced whatever the count is
Mem_page_count_always_new ==
    ReadStep("Mem_page_count", 4,
             Loop(0, read_u32, "Mem_page_index", ret),
             [st EXCEPT !.memory.pages = EmptyPages],
             [loc EXCEPT !.page_count = read_u32, !.i = 0])

\* a page count after which the pages read are added to the map as it is
Mem_page_count_never_new ==
    ReadStep("Mem_page_count", 4,
             Loop(0, read_u32, "Mem_page_index", ret),
             st,
             [loc EXCEPT !.page_count = read_u32, !.i = 0])

\* page_count = read_u32; if page_count > 0 { self.pages = HashMap::new() }
Mem_page_count ==
    ReadStep("Mem_page_count", 4,
             Loop(0, read_u32, "Mem_page_index", ret),
             IF ~IsZero(read_u32)
             THEN [st EXCEPT !.memory.pages = EmptyPages] ELSE st,
             [loc EXCEPT !.page_count = read_u32, !.i = 0])

\* let page_index = cursor.read_u32::<BigEndian>()?
Mem_page_index ==
    ReadStep("Mem_page_index", 4, "Mem_page_data", st,
             [loc EXCEPT !.page_index = read_u32])

\* an insert that keeps the entry a key already has (entry().or_insert)
Insert_keep_first(pages, key, data) ==
    [x \in (DOMAIN pages) \cup {key} |->
        IF x \in DOMAIN pages THEN pages[x] ELSE data]

\* HashMap::insert
Insert(pages, key, data) ==
    [x \in (DOMAIN pages) \cup {key} |-> IF x = key THEN data ELSE pages[x]]
\* a page read whose error is dropped: the page stays zeroed and the loop
\* goes on
Mem_page_data_unchecked ==
    /\ pc = "Mem_page_data"
    /\ IF Remaining >= PageSize
       THEN /\ ReadSucceeds("Mem_page_data", PageSize)
            /\ st' = [st EXCEPT !.memory.pages =
                         Insert(@, loc.page_index, read_exact(PageSize))]
       ELSE /\ pos' = pos
            /\ log' = Logged("Mem_page_data", PageSize, FALSE)
            /\ st' = [st EXCEPT !.memory.pages =
                         Insert(@, loc.page_index, Zeros(PageSize))]
    /\ pc' = Loop(loc.i + 1, loc.page_count, "Mem_page_index", ret)
    /\ loc' = [loc EXCEPT !.i = @ + 1]
    /\ UNCHANGED <<inp, prev, v, ret, result>>

\* a page whose failed read is tried again in place of `?`
Mem_page_data_retry ==
    /\ pc = "Mem_page_data"
    /\ \/ /\ ReadSucceeds("Mem_page_data", PageSize)
          /\ pc' = Loop(loc.i + 1, loc.page_count, "Mem_page_index", ret)
          /\ st' = [st EXCEPT !.memory.pages =
                       Insert(@, loc.page_index, read_exact(PageSize))]
          /\ loc' = [loc EXCEPT !.i = @ + 1]
          /\ UNCHANGED <<v, ret, result>>
       \/ /\ Remaining < PageSize
          /\ UNCHANGED <<pos, log, pc, loc, v, st, ret, result>>
    /\ UNCHANGED <<inp, prev>>

\* cursor.read_exact(&mut data)?; self.pages.insert(page_index, data)
Mem_page_data ==
    ReadStep("Mem_page_data", PageSize,
             Loop(loc.i + 1, loc.page_count, "Mem_page_index", ret),
             [st EXCEPT !.memory.pages =
                            Insert(@, loc.page_index, read_exact(PageSize))],
             [loc EXCEPT !.i = @ + 1])

\* Ok(()) of a Memory::decode that was called on its own
Mem_return ==
    /\ pc = "Mem_return"
    /\ pc' = "done"
    /\ result' = [tag |-> "Ok"]
    /\ UNCHANGED <<inp, prev, pos, ret, v, st, loc, log>>

(***************************************************************************)
(* impl Decodable for SingleThreadedFPVMState                              *)
(***************************************************************************)
ST_preimage_key ==
    ReadStep("ST_preimage_key", KeySize, "ST_perimage_offset",
             [st EXCEPT !.preimage_key = read_exact(KeySize)], loc)

ST_perimage_offset ==
    ReadStep("ST_perimage_offset", 4, "ST_cpu_pc",
             [st EXCEPT !.perimage_offset = read_u32], loc)

ST_cpu_pc ==
    ReadStep("ST_cpu_pc", 4, "ST_cpu_next_pc",
             [st EXCEPT !.cpu.pc = read_u32], loc)

ST_cpu_next_pc ==
    ReadStep("ST_cpu_next_pc", 4, "ST_cpu_lo",
             [st EXCEPT !.cpu.next_pc = read_u32], loc)
\* lo read into hi
ST_cpu_lo_into_hi ==
    ReadStep("ST_cpu_lo", 4, "ST_cpu_hi",
             [st EXCEPT !.cpu.hi = read_u32], loc)

ST_cpu_lo ==
    ReadStep("ST_cpu_lo", 4, "ST_cpu_hi",
             [st EXCEPT !.cpu.lo = read_u32], loc)

ST_cpu_hi ==
    ReadStep("ST_cpu_hi", 4, "ST_heap",
             [st EXCEPT !.cpu.hi = read_u32], loc)

ST_heap ==
    ReadStep("ST_heap", 4, "ST_exit_code",
             [st EXCEPT !.heap = read_u32], loc)

ST_exit_code ==
    ReadStep("ST_exit_code", 1, "ST_exited",
             [st EXCEPT !.exit_code = read_u8], loc)

ST_exited ==
    ReadStep("ST_exited", 1, "ST_step",
             [st EXCEPT !.exited = (read_u8 # 0)], loc)

ST_step ==
    ReadStep("ST_step", 8, "ST_registers",
             [st EXCEPT !.step = read_u64], [loc EXCEPT !.i = 0])

\* for i in 0..self.registers.len() { self.registers[i] = read_u32 }
ST_registers ==
    ReadStep("ST_registers", 4,
             IF loc.i + 1 < NumRegisters THEN "ST_registers"
             ELSE "ST_last_hint_len",
             [st EXCEPT !.registers[loc.i] = read_u32],
             [loc EXCEPT !.i = @ + 1])

\* last_hint_len = read_u32; if last_hint_len > 0, vec![0; last_hint_len]
\* is allocated before anything of the hint is read
ST_last_hint_len ==
    ReadStep("ST_last_hint_len", 4,
             IF ~IsZero(read_u32) THEN "ST_last_hint" ELSE "VS_wrap",
             st,
             [loc EXCEPT !.last_hint_len = read_u32,
                         !.allocated = ~IsZero(read_u32),
                         !.slice_len = IF ~IsZero(read_u32) THEN read_u32 ELSE @])

\* the read_exact of a slice whose length is a u32 numeral
ReadSlice(lbl, len, next) ==
    /\ pc = lbl
    /\ \/ /\ AtMost(len, Remaining)
          /\ ReadSucceeds(lbl, Low(len))
          /\ st' = [st EXCEPT !.last_hint = read_exact(Low(len))]
          /\ pc' = next
          /\ UNCHANGED <<v, loc, ret, result>>
       \/ /\ ~AtMost(len, Remaining)
          /\ pos' \in {pos, buffer_len}
          /\ log' = Logged(lbl, Capped(len), FALSE)
          /\ pc' = "done"
          /\ result' = TryFromErr("UnexpectedEndOfInput")
          /\ UNCHANGED <<v, st, loc, ret>>
    /\ UNCHANGED <<inp, prev>>
\* a hint read with Read::read in place of read_exact: it takes the bytes
\* there are and succeeds
ST_last_hint_short ==
    /\ pc = "ST_last_hint"
    /\ LET got == IF AtMost(loc.slice_len, Remaining)
                  THEN Low(loc.slice_len) ELSE Remaining
       IN /\ pos' = pos + got
          /\ log' = Logged("ST_last_hint", got, TRUE)
          /\ st' = [st EXCEPT !.last_hint = read_exact(got)]
    /\ pc' = "VS_wrap"
    /\ UNCHANGED <<inp, prev, v, loc, ret, result>>

\* cursor.read_exact(&mut slice)?; self.last_hint = slice
ST_last_hint == ReadSlice("ST_last_hint", loc.slice_len, "VS_wrap")

(***************************************************************************)
(* impl Decodable for MultiThreadedV2State                                *)
(***************************************************************************)
V2_preimage_key ==
    ReadStep("V2_preimage_key", KeySize, "V2_perimage_offset",
             [st EXCEPT !.preimage_key = read_exact(KeySize)], loc)

V2_perimage_offset ==
    ReadStep("V2_perimage_offset", 4, "V2_heap",
             [st EXCEPT !.perimage_offset = read_u32], loc)

V2_heap ==
    ReadStep("V2_heap", 4, "V2_ll_reservation_status",
             [st EXCEPT !.heap = read_u32], loc)

\* the reservation status read as a 32-bit value, its low byte kept
V2_ll_reservation_status_as_u32 ==
    ReadStep("V2_ll_reservation_status", 4, "V2_ll_address",
             [st EXCEPT !.ll_reservation_status = read_u32[4]], loc)

V2_ll_reservation_status ==
    ReadStep("V2_ll_reservation_status", 1, "V2_ll_address",
             [st EXCEPT !.ll_reservation_status = read_u8], loc)

V2_ll_address ==
    ReadStep("V2_ll_address", 4, "V2_ll_owner_thread",
             [st EXCEPT !.ll_address = read_u32], loc)

V2_ll_owner_thread ==
    ReadStep("V2_ll_owner_thread", 4, "V2_exit_code",
             [st EXCEPT !.ll_owner_thread = read_u32], loc)

V2_exit_code ==
    ReadStep("V2_exit_code", 1, "V2_exited",
             [st EXCEPT !.exit_code = read_u8], loc)

V2_exited ==
    ReadStep("V2_exited", 1, "V2_step",
             [st EXCEPT !.exited = (read_u8 # 0)], loc)
\* the step counter read into the context-switch counter
V2_step_into_switch_counter ==
    ReadStep("V2_step", 8, "V2_steps_since_last_context_switch",
             [st EXCEPT !.steps_since_last_context_switch = read_u64], loc)

V2_step ==
    ReadStep("V2_step", 8, "V2_steps_since_last_context_switch",
             [st EXCEPT !.step = read_u64], loc)

V2_steps_since_last_context_switch ==
    ReadStep("V2_steps_since_last_context_switch", 8, "V2_traverse_right",
             [st EXCEPT !.steps_since_last_context_switch = read_u64], loc)

V2_traverse_right ==
    ReadStep("V2_traverse_right", 1, "V2_next_thread_id",
             [st EXCEPT !.traverse_right = (read_u8 # 0)], loc)

V2_next_thread_id ==
    ReadStep("V2_next_thread_id", 4, "V2_left_thread_stack_size",
             [st EXCEPT !.next_thread_id = read_u32], loc)

\* left_thread_stack_size = read_u32; left_thread_stack = Vec::new(); the
\* loop makes a default thread state and decodes it, or, with nothing to
\* do, self.left_thread_stack = left_thread_stack
V2_left_thread_stack_size ==
    ReadCall("V2_left_thread_stack_size", 4,
             Loop(0, read_u32, "TS_thread_id", "V2_right_thread_stack_size"),
             IF NatLess(0, read_u32) THEN st
             ELSE [st EXCEPT !.left_thread_stack = << >>],
             [loc EXCEPT !.left_thread_stack_size = read_u32,
                         !.left_thread_stack = << >>, !.j = 0,
                         !.thread_state = DefaultThreadState],
             "V2_left_push")

\* left_thread_stack.push(thread_state), and the next round of the loop or
\* self.left_thread_stack = left_thread_stack
V2_left_push ==
    /\ pc = "V2_left_push"
    /\ loc' = [loc EXCEPT !.left_thread_stack = Append(@, loc.thread_state),
                          !.j = @ + 1, !.thread_state = DefaultThreadState]
    /\ pc' = Loop(loc.j + 1, loc.left_thread_stack_size,
                  "TS_thread_id", "V2_right_thread_stack_size")
    /\ st' = IF NatLess(loc.j + 1, loc.left_thread_stack_size) THEN st
             ELSE [st EXCEPT !.left_thread_stack = loc'.left_thread_stack]
    /\ UNCHANGED <<inp, prev, pos, ret, v, result, log>>

\* right_thread_stack_size = read_u32; right_thread_stack = Vec::new(); the
\* loop makes a default thread state and decodes it, or, with nothing to
\* do, self.right_thread_stack = right_thread_stack
\*
\* first the same with a right_thread_stack that outlives the call and is
\* not emptied
V2_right_thread_stack_size_reused ==
    ReadCall("V2_right_thread_stack_size", 4,
             Loop(0, read_u32, "TS_thread_id", "V2_last_hint_len"),
             IF NatLess(0, read_u32) THEN st
             ELSE [st EXCEPT !.right_thread_stack = loc.right_thread_stack],
             [loc EXCEPT !.right_thread_stack_size = read_u32, !.j = 0,
                         !.thread_state = DefaultThreadState],
             "V2_right_push")

V2_right_thread_stack_size ==
    ReadCall("V2_right_thread_stack_size", 4,
             Loop(0, read_u32, "TS_thread_id", "V2_last_hint_len"),
             IF NatLess(0, read_u32) THEN st
             ELSE [st EXCEPT !.right_thread_stack = << >>],
             [loc EXCEPT !.right_thread_stack_size = read_u32,
                         !.right_thread_stack = << >>, !.j = 0,
                         !.thread_state = DefaultThreadState],
             "V2_right_push")

\* right_thread_stack.push(thread_state), and the next round of the loop or
\* self.right_thread_stack = right_thread_stack
V2_right_push ==
    /\ pc = "V2_right_push"
    /\ loc' = [loc EXCEPT !.right_thread_stack = Append(@, loc.thread_state),
                          !.j = @ + 1, !.thread_state = DefaultThreadState]
    /\ pc' = Loop(loc.j + 1, loc.right_thread_stack_size,
                  "TS_thread_id", "V2_last_hint_len")
    /\ st' = IF NatLess(loc.j + 1, loc.right_thread_stack_size) THEN st
             ELSE [st EXCEPT !.right_thread_stack = loc'.right_thread_stack]
    /\ UNCHANGED <<inp, prev, pos, ret, v, result, log>>

\* last_hint_len = read_u32; if last_hint_len > 0, vec![0; last_hint_len]
\* is allocated before anything of the hint is read
V2_last_hint_len ==
    ReadStep("V2_last_hint_len", 4,
             IF ~IsZero(read_u32) THEN "V2_last_hint" ELSE "VS_wrap",
             st,
             [loc EXCEPT !.last_hint_len = read_u32,
                         !.allocated = ~IsZero(read_u32),
                         !.slice_len = IF ~IsZero(read_u32) THEN read_u32 ELSE @])

\* a hint slice allocated one byte longer than the declared length
V2_last_hint_one_more ==
    ReadStep("V2_last_hint", Capped(loc.slice_len) + 1, "VS_wrap",
             [st EXCEPT !.last_hint = read_exact(Capped(loc.slice_len) + 1)],
             loc)
\* cursor.read_exact(&mut slice)?; self.last_hint = slice
V2_last_hint == ReadSlice("V2_last_hint", loc.slice_len, "VS_wrap")

(***************************************************************************)
(* impl Decodable for MultiThreaded64V3                                   *)
(***************************************************************************)
V3_preimage_key ==
    ReadStep("V3_preimage_key", KeySize, "V3_perimage_offset",
             [st EXCEPT !.preimage_key = read_exact(KeySize)], loc)

V3_perimage_offset ==
    ReadStep("V3_perimage_offset", 8, "V3_heap",
             [st EXCEPT !.perimage_offset = read_u64], loc)
\* the heap read as a 32-bit value
V3_heap_as_u32 ==
    ReadStep("V3_heap", 4, "V3_ll_reservation_status",
             [st EXCEPT !.heap = Zeros(4) \o read_u32], loc)

V3_heap ==
    ReadStep("V3_heap", 8, "V3_ll_reservation_status",
             [st EXCEPT !.heap = read_u64], loc)

V3_ll_reservation_status ==
    ReadStep("V3_ll_reservation_status", 1, "V3_ll_address",
             [st EXCEPT !.ll_reservation_status = read_u8], loc)

V3_ll_address ==
    ReadStep("V3_ll_address", 8, "V3_ll_owner_thread",
             [st EXCEPT !.ll_address = read_u64], loc)

V3_ll_owner_thread ==
    ReadStep("V3_ll_owner_thread", 8, "V3_exit_code",
             [st EXCEPT !.ll_owner_thread = read_u64], loc)

V3_exit_code ==
    ReadStep("V3_exit_code", 1, "V3_exited",
             [st EXCEPT !.exit_code = read_u8], loc)

V3_exited ==
    ReadStep("V3_exited", 1, "V3_step",
             [st EXCEPT !.exited = (read_u8 # 0)], loc)

V3_step ==
    ReadStep("V3_step", 8, "V3_steps_since_last_context_switch",
             [st EXCEPT !.step = read_u64], loc)

V3_steps_since_last_context_switch ==
    ReadStep("V3_steps_since_last_context_switch", 8, "V3_traverse_right",
             [st EXCEPT !.steps_since_last_context_switch = read_u64], loc)

V3_traverse_right ==
    ReadStep("V3_traverse_right", 1, "V3_next_thread_id",
             [st EXCEPT !.traverse_right = (read_u8 # 0)], loc)

V3_next_thread_id ==
    ReadStep("V3_next_thread_id", 8, "V3_left_thread_stack_size",
             [st EXCEPT !.next_thread_id = read_u64], loc)
\* a left stack made of as many default records as the count declares (a
\* count below 2^24), before any of them is read
V3_left_thread_stack_size_prefilled ==
    ReadCall("V3_left_thread_stack_size", 8,
             Loop(0, read_u64, "TS64_thread_id", "V3_right_thread_stack_size"),
             IF NatLess(0, read_u64) THEN st
             ELSE [st EXCEPT !.left_thread_stack = << >>],
             [loc EXCEPT !.left_thread_stack_size = read_u64,
                         !.left_thread_stack =
                             [q \in 1..(IF IsSmall(read_u64) THEN Low(read_u64)
                                         ELSE 0) |-> DefaultThreadState64],
                         !.j = 0, !.thread_state = DefaultThreadState64],
             "V3_left_push")

\* left_thread_stack_size = read_u64; left_thread_stack = Vec::new(); the
\* loop makes a default thread state and decodes it, or, with nothing to
\* do, self.left_thread_stack = left_thread_stack
V3_left_thread_stack_size ==
    ReadCall("V3_left_thread_stack_size", 8,
             Loop(0, read_u64, "TS64_thread_id", "V3_right_thread_stack_size"),
             IF NatLess(0, read_u64) THEN st
             ELSE [st EXCEPT !.left_thread_stack = << >>],
             [loc EXCEPT !.left_thread_stack_size = read_u64,
                         !.left_thread_stack = << >>, !.j = 0,
                         !.thread_state = DefaultThreadState64],
             "V3_left_push")
\* the thread state put at the front of the stack
V3_left_push_front ==
    /\ pc = "V3_left_push"
    /\ loc' = [loc EXCEPT !.left_thread_stack = <<loc.thread_state>> \o @,
                          !.j = @ + 1, !.thread_state = DefaultThreadState64]
    /\ pc' = Loop(loc.j + 1, loc.left_thread_stack_size,
                  "TS64_thread_id", "V3_right_thread_stack_size")
    /\ st' = IF NatLess(loc.j + 1, loc.left_thread_stack_size) THEN st
             ELSE [st EXCEPT !.left_thread_stack = loc'.left_thread_stack]
    /\ UNCHANGED <<inp, prev, pos, ret, v, result, log>>

\* left_thread_stack.push(thread_state), and the next round of the loop or
\* self.left_thread_stack = left_thread_stack
V3_left_push ==
    /\ pc = "V3_left_push"
    /\ loc' = [loc EXCEPT !.left_thread_stack = Append(@, loc.thread_state),
                          !.j = @ + 1, !.thread_state = DefaultThreadState64]
    /\ pc' = Loop(loc.j + 1, loc.left_thread_stack_size,
                  "TS64_thread_id", "V3_right_thread_stack_size")
    /\ st' = IF NatLess(loc.j + 1, loc.left_thread_stack_size) THEN st
             ELSE [st EXCEPT !.left_thread_stack = loc'.left_thread_stack]
    /\ UNCHANGED <<inp, prev, pos, ret, v, result, log>>

\* right_thread_stack_size = read_u64; right_thread_stack = Vec::new(); the
\* loop makes a default thread state and decodes it, or, with nothing to
\* do, self.right_thread_stack = right_thread_stack
V3_right_thread_stack_size ==
    ReadCall("V3_right_thread_stack_size", 8,
             Loop(0, read_u64, "TS64_thread_id", "V3_last_hint_len"),
             IF NatLess(0, read_u64) THEN st
             ELSE [st EXCEPT !.right_thread_stack = << >>],
             [loc EXCEPT !.right_thread_stack_size = read_u64,
                         !.right_thread_stack = << >>, !.j = 0,
                         !.thread_state = DefaultThreadState64],
             "V3_right_push")

\* right_thread_stack.push(thread_state), and the next round of the loop or
\* self.right_thread_stack = right_thread_stack
V3_right_push ==
    /\ pc = "V3_right_push"
    /\ loc' = [loc EXCEPT !.right_thread_stack = Append(@, loc.thread_state),
                          !.j = @ + 1, !.thread_state = DefaultThreadState64]
    /\ pc' = Loop(loc.j + 1, loc.right_thread_stack_size,
                  "TS64_thread_id", "V3_last_hint_len")
    /\ st' = IF NatLess(loc.j + 1, loc.right_thread_stack_size) THEN st
             ELSE [st EXCEPT !.right_thread_stack = loc'.right_thread_stack]
    /\ UNCHANGED <<inp, prev, pos, ret, v, result, log>>

\* last_hint_len = read_u32; if last_hint_len > 0, vec![0; last_hint_len]
\* is allocated before anything of the hint is read
V3_last_hint_len ==
    ReadStep("V3_last_hint_len", 4,
             IF ~IsZero(read_u32) THEN "V3_last_hint" ELSE "VS_wrap",
             st,
             [loc EXCEPT !.last_hint_len = read_u32,
                         !.allocated = ~IsZero(read_u32),
                         !.slice_len = IF ~IsZero(read_u32) THEN read_u32 ELSE @])

\* cursor.read_exact(&mut slice)?; self.last_hint = slice
V3_last_hint == ReadSlice("V3_last_hint", loc.slice_len, "VS_wrap")

(***************************************************************************)
(* impl Decodable for ThreadState                                         *)
(***************************************************************************)
TS_thread_id ==
    ReadStep("TS_thread_id", 4, "TS_exit_code", st,
             [loc EXCEPT !.thread_state = [@ EXCEPT !.thread_id = read_u32]])

TS_exit_code ==
    ReadStep("TS_exit_code", 1, "TS_exited", st,
             [loc EXCEPT !.thread_state = [@ EXCEPT !.exit_code = read_u8]])

TS_exited ==
    ReadStep("TS_exited", 1, "TS_cpu_pc", st,
             [loc EXCEPT !.thread_state = [@ EXCEPT !.exited = (read_u8 # 0)]])

TS_cpu_pc ==
    ReadStep("TS_cpu_pc", 4, "TS_cpu_next_pc", st,
             [loc EXCEPT !.thread_state = [@ EXCEPT !.cpu.pc = read_u32]])

TS_cpu_next_pc ==
    ReadStep("TS_cpu_next_pc", 4, "TS_cpu_lo", st,
             [loc EXCEPT !.thread_state = [@ EXCEPT !.cpu.next_pc = read_u32]])

TS_cpu_lo ==
    ReadStep("TS_cpu_lo", 4, "TS_cpu_hi", st,
             [loc EXCEPT !.thread_state = [@ EXCEPT !.cpu.lo = read_u32]])

TS_cpu_hi ==
    ReadStep("TS_cpu_hi", 4, "TS_registers", st,
             [loc EXCEPT !.thread_state = [@ EXCEPT !.cpu.hi = read_u32], !.i = 0])

\* for i in 0..self.registers.len() { self.registers[i] = read_u32 }; Ok(())
TS_registers ==
    ReadStep("TS_registers", 4,
             IF loc.i + 1 < NumRegisters THEN "TS_registers" ELSE ret,
             st,
             [loc EXCEPT !.thread_state = [@ EXCEPT !.registers[loc.i] = read_u32],
                         !.i = @ + 1])

(***************************************************************************)
(* impl Decodable for ThreadState64                                       *)
(***************************************************************************)
TS64_thread_id ==
    ReadStep("TS64_thread_id", 8, "TS64_exit_code", st,
             [loc EXCEPT !.thread_state = [@ EXCEPT !.thread_id = read_u64]])

TS64_exit_code ==
    ReadStep("TS64_exit_code", 1, "TS64_exited", st,
             [loc EXCEPT !.thread_state = [@ EXCEPT !.exit_code = read_u8]])

TS64_exited ==
    ReadStep("TS64_exited", 1, "TS64_cpu_pc", st,
             [loc EXCEPT !.thread_state = [@ EXCEPT !.exited = (read_u8 # 0)]])

TS64_cpu_pc ==
    ReadStep("TS64_cpu_pc", 8, "TS64_cpu_next_pc", st,
             [loc EXCEPT !.thread_state = [@ EXCEPT !.cpu.pc = read_u64]])

TS64_cpu_next_pc ==
    ReadStep("TS64_cpu_next_pc", 8, "TS64_cpu_lo", st,
             [loc EXCEPT !.thread_state = [@ EXCEPT !.cpu.next_pc = read_u64]])

TS64_cpu_lo ==
    ReadStep("TS64_cpu_lo", 8, "TS64_cpu_hi", st,
             [loc EXCEPT !.thread_state = [@ EXCEPT !.cpu.lo = read_u64]])

TS64_cpu_hi ==
    ReadStep("TS64_cpu_hi", 8, "TS64_registers", st,
             [loc EXCEPT !.thread_state = [@ EXCEPT !.cpu.hi = read_u64], !.i = 0])

\* for i in 0..self.registers.len() { self.registers[i] = read_u64 }; Ok(())
TS64_registers ==
    ReadStep("TS64_registers", 8,
             IF loc.i + 1 < NumRegisters THEN "TS64_registers" ELSE ret,
             st,
             [loc EXCEPT !.thread_state = [@ EXCEPT !.registers[loc.i] = read_u64],
                         !.i = @ + 1])

Next ==
    \/ VS_version \/ VS_dispatch \/ VS_wrap
    \/ Mem_page_count \/ Mem_page_index \/ Mem_page_data
    \/ ST_preimage_key \/ ST_perimage_offset
    \/ ST_cpu_pc \/ ST_cpu_next_pc \/ ST_cpu_lo \/ ST_cpu_hi
    \/ ST_heap \/ ST_exit_code \/ ST_exited \/ ST_step \/ ST_registers
    \/ ST_last_hint_len \/ ST_last_hint
    \/ V2_preimage_key \/ V2_perimage_offset \/ V2_heap
    \/ V2_ll_reservation_status \/ V2_ll_address \/ V2_ll_owner_thread
    \/ V2_exit_code \/ V2_exited \/ V2_step
    \/ V2_steps_since_last_context_switch \/ V2_traverse_right
    \/ V2_next_thread_id \/ V2_left_thread_stack_size \/ V2_left_push
    \/ V2_right_thread_stack_size \/ V2_right_push \/ V2_last_hint_len
    \/ V2_last_hint \/ V3_preimage_key \/ V3_perimage_offset \/ V3_heap
    \/ V3_ll_reservation_status \/ V3_ll_address \/ V3_ll_owner_thread
    \/ V3_exit_code \/ V3_exited \/ V3_step
    \/ V3_steps_since_last_context_switch \/ V3_traverse_right
    \/ V3_next_thread_id \/ V3_left_thread_stack_size \/ V3_left_push
    \/ V3_right_thread_stack_size \/ V3_right_push \/ V3_last_hint_len
    \/ V3_last_hint \/ TS_thread_id \/ TS_exit_code \/ TS_exited
    \/ TS_cpu_pc \/ TS_cpu_next_pc \/ TS_cpu_lo \/ TS_cpu_hi \/ TS_registers
    \/ TS64_thread_id \/ TS64_exit_code \/ TS64_exited \/ TS64_cpu_pc
    \/ TS64_cpu_next_pc \/ TS64_cpu_lo \/ TS64_cpu_hi \/ TS64_registers

Spec == Init /\ [][Next]_vars


(***************************************************************************)
(* impl HasStep, and the call of step through Box<dyn HasStep>: the impl   *)
(* of the struct that is in the box.                                       *)
(***************************************************************************)
SingleThreadedFPVMState_step(s) == s.step

\* an accessor that gives the other 64-bit counter of the struct
MultiThreadedV2State_step_since_switch(s) == s.steps_since_last_context_switch

MultiThreadedV2State_step(s) == s.step

MultiThreaded64V3_step(s) == s.step

HasStep_step(s) ==
    IF DOMAIN s = DOMAIN DefaultSingleThreadedFPVMState
    THEN SingleThreadedFPVMState_step(s)
    ELSE IF Len(s.heap) = 4 THEN MultiThreadedV2State_step(s)
    ELSE MultiThreaded64V3_step(s)

(***************************************************************************)
(* try_from called a second time on the same bytes.  The locals of the     *)
(* first call are dead; their values are left in place, and the second     *)
(* call has what its own statements write.                                 *)
(***************************************************************************)
\* the complete, over-declared and unsupported inputs, and the smallest
\* encoding of each variant cut at every length
TwiceInputs ==
    CompleteInputs \cup OverdeclaredInputs \cup UnsupportedInputs
        \cup { c \in TruncatedInputs : c.n + c.L + c.R + c.k = 0 }

InitTwice ==
    /\ \E c \in TwiceInputs : \E cut \in c.cuts :
         inp = [c EXCEPT !.cut = cut, !.cuts = {}]
    /\ pos = 0
    /\ pc = "VS_version"
    /\ ret = "none"
    /\ v = [version |-> 0, state |-> DefaultSingleThreadedFPVMState]
    /\ st = DefaultSingleThreadedFPVMState
    /\ loc = InitLoc
    /\ result = [tag |-> "Running"]
    /\ log = << >>
    /\ prev = << >>

\* the caller keeps the first result and calls try_from again: a new
\* VersionedState::default() and a new Cursor over the same bytes
TryFromAgain ==
    /\ pc = "done"
    /\ prev = << >>
    /\ prev' = <<result>>
    /\ pos' = 0
    /\ pc' = "VS_version"
    /\ ret' = "none"
    /\ v' = [version |-> 0, state |-> DefaultSingleThreadedFPVMState]
    /\ result' = [tag |-> "Running"]
    /\ log' = << >>
    /\ UNCHANGED <<inp, st, loc>>

\* one call, on the over-declared inputs, the complete ones that end in a
\* hint, some unsupported ones and the smallest encodings cut at every
\* length
FairInputs ==
    OverdeclaredInputs
        \cup { c \in CompleteInputs : c.flag = 0 /\ c.k = MaxHint }
        \cup { c \in UnsupportedInputs : c.d < 2 }
        \cup { c \in TruncatedInputs : c.n + c.L + c.R + c.k = 0 }

InitFair ==
    /\ \E c \in FairInputs : \E cut \in c.cuts :
         inp = [c EXCEPT !.cut = cut, !.cuts = {}]
    /\ pos = 0
    /\ pc = "VS_version"
    /\ ret = "none"
    /\ v = [version |-> 0, state |-> DefaultSingleThreadedFPVMState]
    /\ st = DefaultSingleThreadedFPVMState
    /\ loc = InitLoc
    /\ result = [tag |-> "Running"]
    /\ log = << >>
    /\ prev = << >>

\* try_from runs on its own thread of control and waits for nothing: a
\* statement that can run does run
SpecFair == InitFair /\ [][Next]_vars /\ WF_vars(Next)

NextTwice == Next \/ TryFromAgain

SpecTwice == InitTwice /\ [][NextTwice]_vars

(***************************************************************************)
(* try_from called on a complete encoding, and then on the same encoding   *)
(* with bytes appended to it.                                              *)
(***************************************************************************)
\* the byte sequences appended: up to MaxTrail bytes, all 0 or all 255
Tails == { [j \in 1..m |-> b] : m \in 1..MaxTrail, b \in {0, 255} }

InitTrail ==
    /\ \E c \in { e \in CompleteInputs : e.trail = 0 /\ e.flag = 0 } :
       \E cut \in c.cuts :
         inp = [c EXCEPT !.cut = cut, !.cuts = {}]
    /\ pos = 0
    /\ pc = "VS_version"
    /\ ret = "none"
    /\ v = [version |-> 0, state |-> DefaultSingleThreadedFPVMState]
    /\ st = DefaultSingleThreadedFPVMState
    /\ loc = InitLoc
    /\ result = [tag |-> "Running"]
    /\ log = << >>
    /\ prev = << >>

\* the caller keeps the first result and calls try_from on the buffer
\* followed by t
TryFromLonger ==
    /\ pc = "done"
    /\ prev = << >>
    /\ \E t \in Tails :
         inp' = [inp EXCEPT !.tail = t, !.trail = Len(t), !.cut = @ + Len(t)]
    /\ prev' = <<result>>
    /\ pos' = 0
    /\ pc' = "VS_version"
    /\ ret' = "none"
    /\ v' = [version |-> 0, state |-> DefaultSingleThreadedFPVMState]
    /\ result' = [tag |-> "Running"]
    /\ log' = << >>
    /\ UNCHANGED <<st, loc>>

NextTrail == Next \/ TryFromLonger

SpecTrail == InitTrail /\ [][NextTrail]_vars

(***************************************************************************)
(* Memory::decode called on a Memory that already holds pages, with the    *)
(* cursor at the page count of the buffer.  A failure is shown as try_from *)
(* would hand it on.                                                       *)
(***************************************************************************)
\* a page all of whose bytes are b
FilledPage(b) == [j \in 1..PageSize |-> b]

\* the mappings the Memory holds before the call: none, one under the index
\* of the inputs with dup, and that one with another
PriorPages ==
    { EmptyPages,
      [x \in {DupIndex} |-> FilledPage(1)],
      [x \in {DupIndex, <<0, 0, 0, 9>>} |-> FilledPage(x[4])] }

\* buffers with up to MaxPages + 1 page records, of distinct indices or all
\* of one index, with the honest or a higher page count; whole, or cut in
\* the page count, in an index, in a payload or past the records
MemoryInputs ==
    { [Input(s, dn, Zeros(4), Zeros(4), Zeros(4), 0, 0,
             { cut \in {PageCountOff + 2, PageCountOff + 6,
                        PageCountOff + 4 + PageRecordSize - 1, MemEnd(s),
                        EncLen(s)} : cut <= EncLen(s) })
         EXCEPT !.dup = dup] :
        s \in { [d |-> 2, n |-> n, L |-> 0, R |-> 0, k |-> 0] :
                  n \in 0..(MaxPages + 1) },
        dn \in UNION { {Digits(m, 4)} \cup Inflate(m, 4) :
                         m \in 0..(MaxPages + 1) },
        dup \in BOOLEAN }

InitMemory ==
    /\ \E c \in MemoryInputs : \E cut \in c.cuts : \E prior \in PriorPages :
         /\ inp = [c EXCEPT !.cut = cut, !.cuts = {}, !.prior = prior]
         /\ st = [memory |-> [pages |-> prior]]
    /\ pos = PageCountOff
    /\ pc = "Mem_page_count"
    /\ ret = "Mem_return"
    /\ v = [version |-> 0, state |-> DefaultSingleThreadedFPVMState]
    /\ loc = InitLoc
    /\ result = [tag |-> "Running"]
    /\ log = << >>
    /\ prev = << >>

NextMemory ==
    \/ Mem_page_count
    \/ Mem_page_index
    \/ Mem_page_data
    \/ Mem_return

SpecMemory == InitMemory /\ [][NextMemory]_vars

(***************************************************************************)
(* What the properties speak of.                                           *)
(***************************************************************************)
Done == pc = "done"

\* the statements of each decoder that read
DispatcherReads ==
    {"VS_version"}

MemoryReads ==
    {"Mem_page_count", "Mem_page_index", "Mem_page_data"}

SingleThreadedReads ==
    {"ST_preimage_key", "ST_perimage_offset", "ST_cpu_pc", "ST_cpu_next_pc",
     "ST_cpu_lo", "ST_cpu_hi", "ST_heap", "ST_exit_code", "ST_exited",
     "ST_step", "ST_registers", "ST_last_hint_len", "ST_last_hint"}

MultiThreadedV2Reads ==
    {"V2_preimage_key", "V2_perimage_offset", "V2_heap",
     "V2_ll_reservation_status", "V2_ll_address", "V2_ll_owner_thread",
     "V2_exit_code", "V2_exited", "V2_step",
     "V2_steps_since_last_context_switch", "V2_traverse_right",
     "V2_next_thread_id", "V2_left_thread_stack_size",
     "V2_right_thread_stack_size", "V2_last_hint_len", "V2_last_hint"}

MultiThreaded64V3Reads ==
    {"V3_preimage_key", "V3_perimage_offset", "V3_heap",
     "V3_ll_reservation_status", "V3_ll_address", "V3_ll_owner_thread",
     "V3_exit_code", "V3_exited", "V3_step",
     "V3_steps_since_last_context_switch", "V3_traverse_right",
     "V3_next_thread_id", "V3_left_thread_stack_size",
     "V3_right_thread_stack_size", "V3_last_hint_len", "V3_last_hint"}

ThreadStateReads ==
    {"TS_thread_id", "TS_exit_code", "TS_exited", "TS_cpu_pc",
     "TS_cpu_next_pc", "TS_cpu_lo", "TS_cpu_hi", "TS_registers"}

ThreadState64Reads ==
    {"TS64_thread_id", "TS64_exit_code", "TS64_exited", "TS64_cpu_pc",
     "TS64_cpu_next_pc", "TS64_cpu_lo", "TS64_cpu_hi", "TS64_registers"}

\* the reads of the variant decoder of discriminant d, thread decodes included
VariantReads(d) ==
    CASE d = 2 -> SingleThreadedReads
      [] d = 5 -> MultiThreadedV2Reads \cup ThreadStateReads
      [] d = 6 -> MultiThreaded64V3Reads \cup ThreadState64Reads

LogAt(labels) == { q \in 1..Len(log) : log[q].at \in labels }

\* the w bytes of the buffer after the first off ones
Field(off, w) == [j \in 1..w |-> buffer_at(off + j)]

\* a proper prefix of a complete well-formed encoding without trailing bytes
TruncatedWellFormed(c) ==
    /\ c.d \in CannonVersion
    /\ c.dn = Digits(c.n, 4) /\ c.dk = Digits(c.k, 4)
    /\ c.dL = Digits(c.L, WordSize(c.d)) /\ c.dR = Digits(c.R, WordSize(c.d))
    /\ c.trail = 0
    /\ c.cut < EncLen(c)

\* C1: a first byte outside {2, 5, 6} makes try_from return an
\* UnsupportedVersion error value to its caller, and no byte after the
\* discriminant is read.
C1_UnsupportedVersionIsReturned ==
    (Done /\ buffer_len >= 1 /\ buffer_at(1) \notin CannonVersion)
        => /\ result.tag = "Err"
           /\ result.err = "UnsupportedVersion"
           /\ pos = 1

\* C2: a first byte d in {2, 5, 6} followed by a well-formed body of the
\* matching format decodes successfully, by the variant decoder of d and no
\* other, and the version of the returned VersionedState is d.
C2_DispatchSelectsVariant ==
    (Done /\ WellFormed(inp))
        => /\ result.tag = "Ok"
           /\ result.value.version = inp.d
           /\ LogAt(VariantReads(inp.d)) # {}
           /\ \A d \in CannonVersion \ {inp.d} : LogAt(VariantReads(d)) = {}

C2_Witness ==
    /\ Done /\ WellFormed(inp) /\ inp.d = 5 /\ inp.L = 1
    /\ result.tag = "Ok" /\ result.value.version = 5

\* C3: try_from on a proper prefix (the empty buffer included) of a complete
\* well-formed encoding returns an UnexpectedEndOfInput error and never a
\* decoded state.
C3_TruncationIsUnexpectedEnd ==
    (Done /\ TruncatedWellFormed(inp))
        => result = TryFromErr("UnexpectedEndOfInput")

C3_Witness ==
    /\ Done /\ TruncatedWellFormed(inp)
    /\ inp.cut = EncLen(inp) - 1 /\ inp.k > 0 /\ inp.n = 1
    /\ result.tag = "Err"

\* C4: the first failing read of a decode, in whichever decoder, is its last
\* read: the decode has ended, and the caller has an error and no state.
C4_FirstFailureEndsDecode ==
    \A q \in 1..Len(log) :
        ~log[q].ok => /\ q = Len(log)
                      /\ Done
                      /\ result.tag = "Err"
                      /\ "value" \notin DOMAIN result

C4_Witness ==
    /\ Done /\ result.tag = "Err"
    /\ Len(log) > 40
    /\ log[Len(log)].at = "TS64_registers" /\ ~log[Len(log)].ok
    /\ st.memory.pages = EmptyPages /\ Len(loc.left_thread_stack) = 1

\* C5: a declared hint length greater than the number of bytes that remain
\* is never the size of an allocation: the buffer for the hint is allocated
\* only with a length the rest of the input covers.
C5_HintAllocationFitsInput ==
    (pc \in {"ST_last_hint", "V2_last_hint", "V3_last_hint"} /\ loc.allocated)
        => AtMost(loc.slice_len, Remaining)

\* the reads of a declared count, and the size of the records it counts
CountReads ==
    {"Mem_page_count", "V2_left_thread_stack_size",
     "V2_right_thread_stack_size", "V3_left_thread_stack_size",
     "V3_right_thread_stack_size"}

CountedRecordSize(lbl) ==
    CASE lbl = "Mem_page_count" -> PageRecordSize
      [] lbl \in {"V2_left_thread_stack_size", "V2_right_thread_stack_size"} ->
           ThreadRecordSize(5)
      [] lbl \in {"V3_left_thread_stack_size", "V3_right_thread_stack_size"} ->
           ThreadRecordSize(6)

\* log entry e read a count that the bytes after it cannot satisfy
Overdeclared(e) ==
    /\ e.ok /\ e.at \in CountReads
    /\ LET count == Field(e.off, e.n)
           room == buffer_len - (e.off + e.n)
       IN ~(IsSmall(count) /\ Low(count) <= room \div CountedRecordSize(e.at))

\* the numbers of page and thread records read to their end
PagesRead == Cardinality({ q \in LogAt({"Mem_page_data"}) : log[q].ok })

ThreadsRead ==
    Cardinality({ q \in LogAt({"TS_registers", "TS64_registers"}) : log[q].ok })
        \div NumRegisters

\* C6: a declared page count or thread-stack count that the rest of the
\* buffer cannot satisfy ends in a decode failure, and at every point of the
\* decode the page entries and the thread records held are at most as many
\* as the records read in full.
C6_CountsNeverTrusted ==
    /\ Cardinality(DOMAIN st.memory.pages) <= PagesRead
    /\ Len(loc.left_thread_stack) + Len(loc.right_thread_stack) <= ThreadsRead
    /\ (Done /\ \E q \in LogAt(CountReads) : Overdeclared(log[q]))
           => result.tag = "Err"

C6_Witness ==
    /\ Done /\ result.tag = "Err"
    /\ \E q \in LogAt({"V3_left_thread_stack_size"}) :
           Overdeclared(log[q]) /\ ~IsSmall(Field(log[q].off, log[q].n))
    /\ Len(loc.left_thread_stack) = 2

\* what a thread record at offset off with words of w bytes decodes to
ThreadAt(off, w) ==
    [thread_id |-> Field(off, w),
     exit_code |-> buffer_at(off + w + 1),
     exited |-> buffer_at(off + w + 2) # 0,
     cpu |-> [pc |-> Field(off + w + 2, w),
              next_pc |-> Field(off + 2 * w + 2, w),
              lo |-> Field(off + 3 * w + 2, w),
              hi |-> Field(off + 4 * w + 2, w)],
     registers |-> [r \in 0..(NumRegisters - 1) |->
                       Field(off + 5 * w + 2 + r * w, w)]]

\* the page mapping the n page records of shape c make: the last record of
\* an index gives its payload
PagesOf(c) ==
    LET index(j) == Field(PageOff(c, j), 4)
        last(x) == CHOOSE j \in 1..c.n :
                      /\ index(j) = x
                      /\ \A h \in (j + 1)..c.n : index(h) # x
    IN [x \in { index(j) : j \in 1..c.n } |->
          Field(PageOff(c, last(x)) + 4, PageSize)]

\* C7: a version-2 buffer decodes to a SingleThreadedFPVMState whose fields
\* are the big-endian values at their places, in the order memory, key,
\* offset, pc, next_pc, lo, hi, heap, exit code, exited, step, registers,
\* hint length and hint.
C7_SingleThreadedFields ==
    (Done /\ WellFormed(inp) /\ inp.d = 2)
        => /\ result.tag = "Ok"
           /\ LET s == result.value.state
                  b == MemEnd(inp)
              IN /\ DOMAIN s = DOMAIN DefaultSingleThreadedFPVMState
                 /\ s.memory.pages = PagesOf(inp)
                 /\ s.preimage_key = Field(b, 32)
                 /\ s.perimage_offset = Field(b + 32, 4)
                 /\ s.cpu.pc = Field(b + 36, 4)
                 /\ s.cpu.next_pc = Field(b + 40, 4)
                 /\ s.cpu.lo = Field(b + 44, 4)
                 /\ s.cpu.hi = Field(b + 48, 4)
                 /\ s.heap = Field(b + 52, 4)
                 /\ s.exit_code = buffer_at(b + 57)
                 /\ s.exited = (buffer_at(b + 58) # 0)
                 /\ s.step = Field(b + 58, 8)
                 /\ \A r \in 0..31 : s.registers[r] = Field(b + 66 + 4 * r, 4)
                 /\ Field(b + 194, 4) = Digits(inp.k, 4)
                 /\ s.last_hint = Field(b + 198, inp.k)

C7_Witness ==
    /\ Done /\ WellFormed(inp) /\ inp.d = 2 /\ inp.n = 1 /\ inp.k = 2
    /\ result.tag = "Ok"
    /\ result.value.state.exited
    /\ Len(result.value.state.last_hint) = 2

\* the sizes of the reads of a complete decode of shape c, in order
RECURSIVE Repeat(_, _)
Repeat(seq, m) == IF m = 0 THEN << >> ELSE seq \o Repeat(seq, m - 1)

ThreadRecordReads(w) == <<w, 1, 1, w, w, w, w>> \o Repeat(<<w>>, NumRegisters)

MultiThreadedReads(c, w) ==
    <<1, 4>> \o Repeat(<<4, PageSize>>, c.n)
        \o <<32, w, w, 1, w, w, 1, 1, 8, 8, 1, w>>
        \o <<w>> \o Repeat(ThreadRecordReads(w), c.L)
        \o <<w>> \o Repeat(ThreadRecordReads(w), c.R)
        \o <<4>> \o (IF c.k > 0 THEN <<c.k>> ELSE << >>)

\* the fields of a multi-threaded state s are the values at their places in
\* a buffer of shape c with words of w bytes
MultiThreadedFields(s, c, w) ==
    LET b == MemEnd(c) + 32 IN
      /\ s.memory.pages = PagesOf(c)
      /\ s.preimage_key = Field(MemEnd(c), 32)
      /\ s.perimage_offset = Field(b, w)
      /\ s.heap = Field(b + w, w)
      /\ s.ll_reservation_status = buffer_at(b + 2 * w + 1)
      /\ s.ll_address = Field(b + 2 * w + 1, w)
      /\ s.ll_owner_thread = Field(b + 3 * w + 1, w)
      /\ s.exit_code = buffer_at(b + 4 * w + 2)
      /\ s.exited = (buffer_at(b + 4 * w + 3) # 0)
      /\ s.step = Field(b + 4 * w + 3, 8)
      /\ s.steps_since_last_context_switch = Field(b + 4 * w + 11, 8)
      /\ s.traverse_right = (buffer_at(b + 4 * w + 20) # 0)
      /\ s.next_thread_id = Field(b + 4 * w + 20, w)
      /\ Field(b + 5 * w + 20, w) = Digits(c.L, w)
      /\ Len(s.left_thread_stack) = c.L
      /\ Len(s.right_thread_stack) = c.R
      /\ Field(HintLenOff(c), 4) = Digits(c.k, 4)
      /\ s.last_hint = Field(HintOff(c), c.k)

\* C8: a version-5 buffer is read as memory, 32-byte key, u32 offset, u32
\* heap, u8 status, u32 address, u32 owner, u8 exit code, u8 exited, u64
\* step, u64 steps since the context switch, u8 traversal flag, u32 next
\* thread id, u32 left count and its 32-bit records, u32 right count and its
\* 32-bit records, u32 hint length and the hint; every field is the value
\* at its place.
C8_MultiThreadedV2Fields ==
    (Done /\ WellFormed(inp) /\ inp.d = 5)
        => /\ result.tag = "Ok"
           /\ [q \in 1..Len(log) |-> log[q].n] = MultiThreadedReads(inp, 4)
           /\ DOMAIN result.value.state = DOMAIN DefaultMultiThreadedV2State
           /\ MultiThreadedFields(result.value.state, inp, 4)
           /\ \A j \in 1..inp.L : DOMAIN result.value.state.left_thread_stack[j]
                                     = DOMAIN DefaultThreadState
           /\ \A j \in 1..inp.L : result.value.state.left_thread_stack[j].cpu
                                     = ThreadAt(LeftOff(inp, j), 4).cpu

C8_Witness ==
    /\ Done /\ WellFormed(inp) /\ inp.d = 5
    /\ inp.n = 1 /\ inp.L = 1 /\ inp.R = 1 /\ inp.k = 2
    /\ result.tag = "Ok"
    /\ result.value.state.next_thread_id = Field(MemEnd(inp) + 68, 4)

\* C9: a version-6 buffer is read in the order of version 5, with offset,
\* heap, address, owner, next thread id, both stack counts and each thread
\* record's id, scalars and registers as 64-bit values, and the page count,
\* the page indices and the hint length as 32-bit values.
C9_MultiThreaded64V3Fields ==
    (Done /\ WellFormed(inp) /\ inp.d = 6)
        => /\ result.tag = "Ok"
           /\ [q \in 1..Len(log) |-> log[q].n] = MultiThreadedReads(inp, 8)
           /\ DOMAIN result.value.state = DOMAIN DefaultMultiThreaded64V3
           /\ MultiThreadedFields(result.value.state, inp, 8)
           /\ \A x \in DOMAIN result.value.state.memory.pages : Len(x) = 4
           /\ \A j \in 1..inp.R :
                 /\ Len(result.value.state.right_thread_stack[j].thread_id) = 8
                 /\ \A r \in 0..31 :
                      result.value.state.right_thread_stack[j].registers[r]
                          = Field(RightOff(inp, j) + 42 + 8 * r, 8)

C9_Witness ==
    /\ Done /\ WellFormed(inp) /\ inp.d = 6
    /\ inp.n = 1 /\ inp.L = 1 /\ inp.R = 1 /\ inp.k = 2
    /\ result.tag = "Ok"
    /\ Len(result.value.state.heap) = 8
    /\ Len(log) = 2 + 2 + 12 + 2 + 2 * (7 + 32) + 2

\* C10: after a successful multi-threaded decode with declared counts N and
\* M, left_thread_stack holds the N left records of the input in their
\* order and right_thread_stack the M right records in theirs.
C10_ThreadStackOrder ==
    (Done /\ WellFormed(inp) /\ IsMulti(inp.d))
        => /\ result.tag = "Ok"
           /\ LET s == result.value.state
                  w == WordSize(inp.d)
              IN /\ Len(s.left_thread_stack) = Low(Field(LeftCountOff(inp), w))
                 /\ Len(s.right_thread_stack) = Low(Field(RightCountOff(inp), w))
                 /\ \A j \in 1..Len(s.left_thread_stack) :
                       s.left_thread_stack[j] = ThreadAt(LeftOff(inp, j), w)
                 /\ \A j \in 1..Len(s.right_thread_stack) :
                       s.right_thread_stack[j] = ThreadAt(RightOff(inp, j), w)

C10_Witness ==
    /\ Done /\ WellFormed(inp) /\ inp.d = 6 /\ inp.L = 2 /\ inp.R = 1
    /\ result.tag = "Ok"
    /\ Len(result.value.state.left_thread_stack) = 2
    /\ result.value.state.left_thread_stack[1]
          # result.value.state.left_thread_stack[2]

\* the reads of the hint length prefix and of the hint
HintLenReads == {"ST_last_hint_len", "V2_last_hint_len", "V3_last_hint_len"}

HintReads == {"ST_last_hint", "V2_last_hint", "V3_last_hint"}

\* C11: in each variant decoder a hint length prefix of 0 gives an empty
\* last_hint and is the last read of the decode; a prefix k > 0 that the
\* remaining bytes cover makes last_hint the k bytes after the prefix, and
\* the cursor ends exactly k bytes after the prefix.
C11_HintIsLengthPrefixed ==
    Done =>
      \A q \in LogAt(HintLenReads) :
         log[q].ok =>
           LET len == Field(log[q].off, 4)
               after == log[q].off + 4
           IN /\ IsZero(len)
                   => /\ q = Len(log)
                      /\ pos = after
                      /\ result.tag = "Ok"
                      /\ result.value.state.last_hint = << >>
              /\ (~IsZero(len) /\ AtMost(len, buffer_len - after))
                   => /\ q + 1 = Len(log)
                      /\ log[q + 1].at \in HintReads
                      /\ log[q + 1].ok
                      /\ log[q + 1].off = after
                      /\ pos = after + Low(len)
                      /\ result.tag = "Ok"
                      /\ result.value.state.last_hint = Field(after, Low(len))

C11_Witness ==
    /\ Done /\ result.tag = "Ok" /\ result.value.version = 5
    /\ Len(result.value.state.last_hint) = 2
    /\ buffer_len > pos
    /\ log[Len(log)].at = "V2_last_hint"
    /\ pos = log[Len(log)].off + 2

\* C12: Memory::decode on a page count of 0 succeeds after the one read of
\* the 4 count bytes, reads no page record, and the page mapping is the one
\* the Memory held before the call.
C12_ZeroPagesKeepsMapping ==
    (Len(log) >= 1 /\ log[1].at = "Mem_page_count" /\ log[1].ok
       /\ IsZero(Field(log[1].off, 4)))
        => /\ st.memory.pages = inp.prior
           /\ LogAt({"Mem_page_index", "Mem_page_data"}) = {}
           /\ pc # "Mem_page_index" /\ pc # "Mem_page_data"
           /\ Done => /\ result.tag = "Ok"
                      /\ Len(log) = 1
                      /\ log[1].n = 4
                      /\ pos = log[1].off + 4

C12_Witness ==
    /\ Done /\ result.tag = "Ok"
    /\ Len(log) = 1 /\ IsZero(Field(log[1].off, 4))
    /\ Cardinality(DOMAIN inp.prior) = 2
    /\ st.memory.pages = inp.prior
    /\ buffer_len > pos + PageRecordSize

\* C13: Memory::decode on a count n > 0 followed by n complete page records
\* maps every page index among them to the payload of the last record that
\* carries it, and to nothing else; with a repeated index the mapping has
\* fewer than n entries.
C13_LastPageRecordWins ==
    (Done /\ result.tag = "Ok" /\ log[1].at = "Mem_page_count"
       /\ inp.n > 0 /\ inp.dn = Digits(inp.n, 4))
        => LET index(j) == Field(PageOff(inp, j), 4)
               payload(j) == Field(PageOff(inp, j) + 4, PageSize)
           IN /\ DOMAIN st.memory.pages = { index(j) : j \in 1..inp.n }
              /\ \A j \in 1..inp.n :
                    (\A h \in (j + 1)..inp.n : index(h) # index(j))
                        => st.memory.pages[index(j)] = payload(j)
              /\ (\E j, h \in 1..inp.n : j # h /\ index(j) = index(h))
                    => Cardinality(DOMAIN st.memory.pages) < inp.n

C13_Witness ==
    /\ Done /\ result.tag = "Ok" /\ log[1].at = "Mem_page_count"
    /\ inp.n = 2 /\ inp.dn = Digits(2, 4) /\ inp.dup
    /\ Cardinality(DOMAIN st.memory.pages) = 1
    /\ st.memory.pages[DupIndex] = Field(PageOff(inp, 2) + 4, PageSize)
    /\ st.memory.pages[DupIndex] # Field(PageOff(inp, 1) + 4, PageSize)

\* C14: a second call of try_from on the same bytes gives the outcome of
\* the first: the same decoded state field for field, or the same failure.
C14_SameBytesSameOutcome ==
    (Done /\ prev # << >>) => result = prev[1]

C14_Witness ==
    /\ Done /\ Len(prev) = 1
    /\ prev[1].tag = "Ok" /\ prev[1].value.version = 5
    /\ Len(prev[1].value.state.right_thread_stack) = 2
    /\ Len(prev[1].value.state.last_hint) = 2
    /\ result = prev[1]

\* C15: step() on the state of a successful decode is the 64-bit step
\* counter at its place in the buffer of that variant, and not the counter
\* of steps since the last context switch.
C15_StepIsTheStepCounter ==
    (Done /\ WellFormed(inp))
        => /\ result.tag = "Ok"
           /\ LET s == result.value.state
                  b == MemEnd(inp)
              IN /\ HasStep_step(s) =
                       CASE inp.d = 2 -> Field(b + 58, 8)
                         [] inp.d = 5 -> Field(b + 51, 8)
                         [] inp.d = 6 -> Field(b + 67, 8)
                 /\ IsMulti(inp.d) =>
                       /\ s.steps_since_last_context_switch
                             = Field(IF inp.d = 5 THEN b + 59 ELSE b + 75, 8)
                       /\ HasStep_step(s) # s.steps_since_last_context_switch

C15_Witness ==
    /\ Done /\ WellFormed(inp) /\ inp.d = 5 /\ inp.n = 1
    /\ result.tag = "Ok"
    /\ HasStep_step(result.value.state) = Field(MemEnd(inp) + 51, 8)
    /\ HasStep_step(result.value.state) # Zeros(8)

\* the stage that issued the read lbl
StageOf(lbl) ==
    IF lbl \in DispatcherReads THEN "dispatcher"
    ELSE IF lbl \in MemoryReads THEN "memory decoder"
    ELSE IF lbl \in ThreadStateReads \cup ThreadState64Reads
         THEN "thread-context decoder"
    ELSE "variant decoder"

\* the stage an error value names, if it names one
NamedStage(r) == IF "stage" \in DOMAIN r THEN r.stage ELSE "none"

\* C16: the error of a failed decode names the stage whose read failed, so
\* that failures of different stages give different errors.
C16_ErrorNamesStage ==
    (Done /\ result.tag = "Err" /\ log # << >>)
        => NamedStage(result) = StageOf(log[Len(log)].at)

\* C17: a read that succeeds moves the cursor by exactly the size it read,
\* all of it inside the buffer; a read of more bytes than remain fails with
\* UnexpectedEndOfInput and gives no value.
C17_ReadsAdvanceByTheirSize ==
    \A q \in 1..Len(log) :
       LET e == log[q]
           after == IF q < Len(log) THEN log[q + 1].off ELSE pos
       IN /\ e.n >= 1
          /\ e.ok => /\ after = e.off + e.n
                     /\ e.off + e.n <= buffer_len
          /\ ~e.ok => /\ e.n > buffer_len - e.off
                      /\ result = TryFromErr("UnexpectedEndOfInput")
          /\ e.at \in {"VS_version", "ST_exited", "TS64_exit_code"} => e.n = 1
          /\ e.at \in {"Mem_page_count", "ST_heap", "V3_last_hint_len"}
                => e.n = 4
          /\ e.at \in {"ST_step", "V2_step", "V3_heap", "TS64_cpu_lo"} => e.n = 8
          /\ (e.at \in HintReads /\ e.ok)
                => e.n = Low(Field(log[q - 1].off, 4))

C17_Witness ==
    /\ Done /\ Len(log) > 3
    /\ log[3].at = "Mem_page_index" /\ log[4].n = PageSize /\ log[4].ok
    /\ log[Len(log)].at = "ST_step" /\ ~log[Len(log)].ok
    /\ buffer_len - log[Len(log)].off \in 1..7
    /\ result.tag = "Err"

\* the variants that have a read of their decoder in the history
VariantsRun == { d \in CannonVersion : LogAt(VariantReads(d)) # {} }

\* C18: no step of a decode moves the cursor back or past the end of the
\* buffer; at most one variant decoder reads; no read of a variant, memory
\* or thread decoder comes before the successful read of the discriminant
\* byte; after the decode has ended nothing is read.
C18_ForwardOnlyPass ==
    [][/\ pos' >= pos
       /\ pos' <= buffer_len'
       /\ Cardinality(VariantsRun') <= 1
       /\ \A q \in 1..Len(log') :
             log'[q].at \notin DispatcherReads
                 => /\ q > 1
                    /\ log'[1].at = "VS_version" /\ log'[1].ok
                    /\ log'[1].off = 0
       /\ Done => (log' = log /\ pos' = pos)]_vars

C18_Witness ==
    /\ Done /\ result.tag = "Ok"
    /\ VariantsRun = {6}
    /\ LogAt(ThreadState64Reads) # {}
    /\ pos = buffer_len - 1

\* C19: a successful decode ends with the cursor at 203 + 4100 n + k for
\* version 2, 89 + 4100 n + 150 (L + R) + k for version 5 and
\* 117 + 4100 n + 298 (L + R) + k for version 6, where n, L, R and k are the
\* declared page count, stack counts and hint length; a complete encoding
\* with these counts decodes successfully.
C19_BytesConsumed ==
    /\ (Done /\ WellFormed(inp)) => result.tag = "Ok"
    /\ (Done /\ result.tag = "Ok")
         => LET s == result.value.state
                n == Low(Field(1, 4))
                k == Len(s.last_hint)
                T == IF result.value.version = 2 THEN 0
                     ELSE Len(s.left_thread_stack) + Len(s.right_thread_stack)
            IN /\ n = inp.n /\ k = inp.k /\ T = inp.L + inp.R
               /\ pos = CASE result.value.version = 2 -> 203 + 4100 * n + k
                          [] result.value.version = 5 ->
                               89 + 4100 * n + 150 * T + k
                          [] result.value.version = 6 ->
                               117 + 4100 * n + 298 * T + k

C19_Witness ==
    /\ Done /\ result.tag = "Ok" /\ result.value.version = 6
    /\ inp.n = 1 /\ inp.L = 1 /\ inp.R = 1 /\ inp.k = 2
    /\ pos = 117 + 4100 + 298 * 2 + 2
    /\ buffer_len = pos

\* the rounds begun of the page loop and of the thread-stack loops
LoopRounds ==
    Cardinality(LogAt({"Mem_page_index", "TS_thread_id", "TS64_thread_id"}))

\* C20: every decode ends; each round of the page loop and of the two
\* thread-stack loops reads at least one byte or ends the decode, so there
\* are never more rounds than the buffer has bytes, whatever the counts
\* declare.
C20_DecodeTerminates ==
    /\ <>Done
    /\ [](/\ LoopRounds <= buffer_len
          /\ \A q \in 1..Len(log) :
                log[q].ok => /\ log[q].n >= 1
                             /\ q <= log[q].off + 1)

C20_Witness ==
    /\ Done /\ result.tag = "Err"
    /\ ~IsSmall(Field(LeftCountOff(inp), 8))
    /\ inp.d = 6
    /\ LogAt({"TS64_thread_id"}) # {}
    /\ LoopRounds <= inp.L + 1

\* C21: a well-formed encoding followed by appended bytes decodes
\* successfully to the version and state that the encoding alone decodes
\* to, and no read reaches an appended byte.
C21_TrailingBytesIgnored ==
    (Done /\ WellFormed(inp) /\ prev # << >>)
        => /\ prev[1].tag = "Ok"
           /\ result = prev[1]
           /\ pos = buffer_len - Len(inp.tail)
           /\ \A q \in 1..Len(log) :
                 log[q].off + log[q].n <= buffer_len - Len(inp.tail)

C21_Witness ==
    /\ Done /\ WellFormed(inp) /\ Len(prev) = 1
    /\ inp.tail = <<255>> /\ buffer_at(buffer_len) = 255
    /\ result.tag = "Ok" /\ result.value.version = 2
    /\ Len(result.value.state.last_hint) = 2
    /\ pos = buffer_len - 1

\* the page records read in full: the reads of their payloads
FullRecords == { q \in LogAt({"Mem_page_data"}) : log[q].ok }

\* C22: once Memory::decode has read a page count above 0, the mapping
\* holds the indices of the records read in full in this call, each with a
\* payload read in this call, and nothing of what it held before, also
\* when a later read fails; after a page count of 0 it holds what it held
\* before.
C22_PositiveCountDiscardsPrior ==
    (Len(log) >= 1 /\ log[1].at = "Mem_page_count" /\ log[1].ok)
        => IF IsZero(Field(log[1].off, 4))
           THEN st.memory.pages = inp.prior
           ELSE /\ DOMAIN st.memory.pages =
                     { Field(log[q - 1].off, 4) : q \in FullRecords }
                /\ \A x \in DOMAIN st.memory.pages :
                      \E q \in FullRecords :
                         /\ Field(log[q - 1].off, 4) = x
                         /\ st.memory.pages[x] = Field(log[q].off, PageSize)

C22_Witness ==
    /\ Done /\ result.tag = "Err"
    /\ Cardinality(DOMAIN inp.prior) = 2
    /\ Cardinality(FullRecords) = 1
    /\ ~log[Len(log)].ok /\ log[Len(log)].at = "Mem_page_data"
    /\ DOMAIN st.memory.pages = {DupIndex}
    /\ st.memory.pages[DupIndex] # inp.prior[DupIndex]

====
